---- MODULE Spec2Model ----
(***************************************************************************)
(* ORCID push daemon of Invenio (modules/miscutil/lib/orcidutils.py).      *)
(*                                                                         *)
(* The model follows _orcid_push_with_bibtask and the functions it calls:  *)
(* _orcid_fetch_works, _get_orcid_dictionaries, _get_external_ids and      *)
(* _push_few_works.  The collaborators (the aidTOKEN table, the list of    *)
(* claimed papers, the blacklist file, the ORCID registry) are the state   *)
(* and the inputs of the model.                                            *)
(***************************************************************************)
EXTENDS Integers, Sequences, FiniteSets, TLC

(***************************************************************************)
(* Bounds of the model.                                                    *)
(***************************************************************************)
\* Largest number of papers one author has claimed.
MaxPapers == 2
\* Number of times, in a run, the registry may answer with a collision that
\* removes no record (each such answer repeats the same transmission).
MaxStalls == 1
\* Largest value of ORCID_SINGLE_REQUEST_WORKS that is explored.
MaxBatchSize == 2
\* Largest number of calls of gcfix-decorated functions that are active at
\* the same time (a decorated function that calls a decorated function).
MaxDepth == 2

(***************************************************************************)
(* Program constants.                                                      *)
(***************************************************************************)
\* orcidutils.py:59.  The module-level setting of the batch size; the
\* variable batch_size starts at this value or at a larger configured one.
ORCID_SINGLE_REQUEST_WORKS == 1

\* The authors (personids) that own a row of aidTOKEN.
Pids == {1, 2}

\* get_orcid_id_of_author(pid)[0][0]
get_orcid_id_of_author(pid) == IF pid = 1 THEN "0000-0001" ELSE "0000-0002"

Doids == {get_orcid_id_of_author(p) : p \in Pids}

\* A value that stands for Python's None.
None == "None"

\* _get_ext_orcids_using_pid, the orcid_id it returns:
\*   try: orcid_id = get_orcid_id_of_author(pid)[0][0]
\*   except IndexError: register_exception(...); orcid_id = None
\* missing holds the authors for whom the database has no row.
_get_ext_orcids_using_pid(pid, missing) ==
    IF pid \in missing THEN None ELSE get_orcid_id_of_author(pid)

(***************************************************************************)
(* The catalogue: the MARC records get_record(recid) returns.              *)
(*   doi   get_doi_for_paper(recid, recstruct)                             *)
(*   isbn  field 020 $a                                                    *)
(*   f037  the instances of field 037, each with its $9 and $a             *)
(*   f359  field 359 $9 (the source of the work)                           *)
(***************************************************************************)
Recids == 1 .. 6

get_record(recid) ==
    CASE recid = 1 -> [doi |-> <<"10.1/x">>, isbn |-> None,
                       f037 |-> << [s9 |-> "arXiv", a |-> "arXiv:1"],
                                   [s9 |-> "arXiv", a |-> "arXiv:1"] >>,
                       f359 |-> None]
      [] recid = 2 -> [doi |-> <<>>, isbn |-> "978-1", f037 |-> <<>>,
                       f359 |-> None]
      [] recid = 3 -> [doi |-> <<>>, isbn |-> None,
                       f037 |-> << [s9 |-> "arXiv", a |-> "arXiv:1"],
                                   [s9 |-> "arXiv", a |-> "arXiv:1"] >>,
                       f359 |-> None]
      [] recid = 4 -> [doi |-> <<>>, isbn |-> None,
                       f037 |-> << [s9 |-> "CERN", a |-> "CERN-TH-1"] >>,
                       f359 |-> None]
      [] recid = 5 -> [doi |-> <<"10.1/a&b">>, isbn |-> "978-1", f037 |-> <<>>,
                       f359 |-> None]
      [] recid = 6 -> [doi |-> <<"10.1/z">>, isbn |-> None, f037 |-> <<>>,
                       f359 |-> "SPIRES"]

\* The papers each author may come to claim.
Claimable(p) == IF p = 1 THEN {1, 2, 5} ELSE {4, 6}

\* url = CFG_SITE_URL + ('/record/%d' % recid)
RecordUrl(recid) == "/record/" \o ToString(recid)

\* encode_for_jinja_and_xml: the XML special characters are escaped, every
\* other text is left as it is.
encode_for_jinja_and_xml(text) ==
    IF text = "10.1/a&b" THEN "10.1/a&amp;b" ELSE text

\* field[1].lower() == 'arxiv'
IsArxivSource(s9) == s9 \in {"arXiv", "arxiv", "ARXIV"}


(***************************************************************************)
(* The blacklist file CFG_ORCIDUTILS_BLACKLIST_FILE: a JSON document that  *)
(* maps an ORCID id to the list of identifier values the registry refused. *)
(* present = FALSE is the missing file (open() raises IOError).            *)
(***************************************************************************)
EmptyDict == [k \in {} |-> <<>>]

NoFile == [present |-> FALSE, data |-> EmptyDict]

\* blacklist = {} ; try: blacklist = json.loads(open(FILE).read())
\* except IOError: pass
LoadBlacklist(file) == IF file.present THEN file.data ELSE EmptyDict

\* blacklist.get(orcid, [])
BlacklistGet(blacklist, orcid) ==
    IF orcid \in DOMAIN blacklist THEN blacklist[orcid] ELSE <<>>

SeqRange(s) == {s[i] : i \in 1 .. Len(s)}

\* json.dump(blacklist, open(FILE, 'w'))
DumpBlacklist(blacklist) == [present |-> TRUE, data |-> blacklist]

(***************************************************************************)
(* _get_extids_from_orcid: the identifiers the registry already holds for  *)
(* the author, by kind.                                                    *)
(***************************************************************************)
ExtIdKinds == {"doi", "arxiv", "isbn", "other-id"}

EmptyExtIds == [kind \in ExtIdKinds |-> {}]

\* get_doi(value): the DOI without its "doi:" prefix.
get_doi(value) == IF value = "doi:10.1/x" THEN "10.1/x" ELSE value

\* The answers of the registry to one request of a fetch.  kind is "ok" for
\* an answer with a JSON body, whose works carry the (type, value)
\* identifiers ids, and otherwise the exception the request ends with:
\*   ReadTimeout, ConnectTimeout  the timeouts of requests
\*   HTTPError    raise_for_status(), or any other RequestException
\*   ValueError   the body is not JSON: the ValueError of json() (line 290)
Failure(kind) == [kind |-> kind, ids |-> {}]

Answers ==
    {Failure(k) : k \in {"ReadTimeout", "ConnectTimeout", "HTTPError",
                         "ValueError"}}
      \cup {[kind |-> "ok", ids |-> i] :
                i \in { {}, {<<"doi", "doi:10.1/x">>,
                             <<"other-id", "/record/5">>} }}

\* The answers of the registry to the successive requests of one fetch: some
\* timeouts, then an answer that is not a timeout.
TimeoutRuns ==
    { <<>>,
      <<Failure("ReadTimeout")>>,
      <<Failure("ConnectTimeout")>>,
      <<Failure("ReadTimeout"), Failure("ConnectTimeout")>>,
      <<Failure("ReadTimeout"), Failure("ReadTimeout"), Failure("ReadTimeout")>> }

Scripts ==
    {run \o <<a>> : run \in TimeoutRuns,
                    a \in {x \in Answers : x.kind \notin {"ReadTimeout",
                                                          "ConnectTimeout"}}}

\* except RequestException: the timeouts and HTTPError are RequestExceptions,
\* ValueError is not.
IsRequestException(kind) == kind \in {"ReadTimeout", "ConnectTimeout", "HTTPError"}

\* orcid_profile = ap.read_record_public(orcid_id, 'activities'), with
\* orcid_profile = None kept when the call raises RequestException:
\* ok = FALSE is the profile None.
read_record_public(answer) == [ok |-> answer.kind = "ok", ids |-> answer.ids]

\* if identifier_type == "doi": ext_ids_dict[type].add(get_doi(value))
\* ext_ids_dict[identifier_type].add(value)
ExtIdsOfKind(ids, kind) ==
    LET values == {id[2] : id \in {x \in ids : x[1] = kind}} IN
    IF kind = "doi" THEN values \cup {get_doi(v) : v \in values} ELSE values

_get_extids_from_orcid(orcid_id, profile) ==
    IF orcid_id = None \/ ~profile.ok \/ profile.ids = {}
    THEN EmptyExtIds
    ELSE [kind \in ExtIdKinds |-> ExtIdsOfKind(profile.ids, kind)]

(***************************************************************************)
(* get_dois_from_orcid_api_v2_1 (low_level, with a search token set): the  *)
(* DOIs of the works of an author, read with _get_works_from_orcid, which  *)
(* the decorator retry repeats.                                            *)
(***************************************************************************)
\* stop_max_attempt_number=3
stop_max_attempt_number == 3

\* A retry condition that holds for every exception.
retry_if_any_error(exception) == TRUE

\* isinstance(exception, ReadTimeout) or isinstance(exception, ConnectTimeout)
retry_if_timeout_error(exception) ==
    exception = "ReadTimeout" \/ exception = "ConnectTimeout"

\* The answer to request number n: once the answers of the script are used
\* up the registry repeats the last one.
AnswerAt(script, n) == script[IF n > Len(script) THEN Len(script) ELSE n]

\* The decorated _get_works_from_orcid: the loop of retry.  An answer with
\* a body (JSON or not) is returned; an exception is retried when
\* retry_on_exception holds and the attempts are not used up, and is
\* otherwise raised (as RetryError, wrap_exception=True).
RECURSIVE _get_works_from_orcid(_, _)
_get_works_from_orcid(script, attempt_number) ==
    LET answer == AnswerAt(script, attempt_number) IN
    IF answer.kind \in {"ok", "ValueError"}
    THEN [raised |-> FALSE, res |-> answer, attempts |-> attempt_number]
    ELSE IF ~retry_if_timeout_error(answer.kind)
    THEN [raised |-> TRUE, res |-> answer, attempts |-> attempt_number]
    ELSE IF attempt_number >= stop_max_attempt_number
    THEN [raised |-> TRUE, res |-> answer, attempts |-> attempt_number]
    ELSE _get_works_from_orcid(script, attempt_number + 1)

\* The result is the returned DOIs and the number of requests made.
get_dois_from_orcid_api_v2_1(orcid_id, script) ==
    IF orcid_id = None THEN [dois |-> {}, attempts |-> 0]
    ELSE LET r == _get_works_from_orcid(script, 1) IN
         IF r.raised \/ r.res.kind = "ValueError" \/ r.res.ids = {}
         THEN [dois |-> {}, attempts |-> r.attempts]
         ELSE [dois |-> {get_doi(id[2]) : id \in {x \in r.res.ids : x[1] = "doi"}},
               attempts |-> r.attempts]

(***************************************************************************)
(* _get_external_ids: the identifiers of one record, or the signal         *)
(* OrcidRecordExisting (skip = TRUE).  warned = TRUE when the DoubledIds   *)
(* warning was registered.                                                 *)
(***************************************************************************)
\* if doi: for single_doi in set(doi): ... raise OrcidRecordExisting
DoiExisting(doi, old_external_ids, blacklist, orcid) ==
    \E i \in 1 .. Len(doi) :
        \/ doi[i] \in old_external_ids["doi"]
        \/ doi[i] \in SeqRange(BlacklistGet(blacklist, orcid))

DoiIds(doi) == {<<"doi", encode_for_jinja_and_xml(doi[i])>> : i \in 1 .. Len(doi)}

\* if isbn: if isbn in old_external_ids['isbn']: raise OrcidRecordExisting
IsbnExisting(isbn, old_external_ids) ==
    isbn # None /\ isbn \in old_external_ids["isbn"]

IsbnIds(isbn) ==
    IF isbn # None THEN {<<"isbn", encode_for_jinja_and_xml(isbn)>>} ELSE {}

\* A test of the doubled arXiv id that never holds.
DoubledNever(encoded, external_ids) == FALSE

\* if encoded in [x for (y, x) in external_ids if y == 'arxiv']:
Doubled(encoded, external_ids) ==
    encoded \in {x[2] : x \in {y \in external_ids : y[1] = "arxiv"}}

\* for rec in record_ext_ids: ... (the loop over the 037 fields)
RECURSIVE ArxivLoop(_, _, _, _)
ArxivLoop(f037, i, old_external_ids, acc) ==
    IF i > Len(f037) \/ acc.skip THEN acc
    ELSE IF ~IsArxivSource(f037[i].s9)
         THEN ArxivLoop(f037, i + 1, old_external_ids, acc)
    ELSE IF f037[i].a \in old_external_ids["arxiv"]
         THEN [acc EXCEPT !.skip = TRUE]
    ELSE LET encoded == encode_for_jinja_and_xml(f037[i].a) IN
         IF Doubled(encoded, acc.ids)
         THEN ArxivLoop(f037, i + 1, old_external_ids,
                        [acc EXCEPT !.warned = TRUE])
         ELSE ArxivLoop(f037, i + 1, old_external_ids,
                        [acc EXCEPT !.ids = @ \cup {<<"arxiv", encoded>>}])

\* A test of the url that never holds.
UrlNeverExisting(url, old_external_ids) == FALSE

\* if url in old_external_ids['other-id']: raise OrcidRecordExisting
UrlExisting(url, old_external_ids) == url \in old_external_ids["other-id"]

\* A fallback that adds nothing.
UrlFallbackMissing(external_ids, url) == external_ids

\* if len(external_ids) == 0: external_ids.add(('other-id', url))
UrlFallback(external_ids, url) ==
    IF external_ids = {} THEN {<<"other-id", url>>} ELSE external_ids

_get_external_ids(recid, url, recstruct, old_external_ids, blacklist, orcid) ==
    LET doi == recstruct.doi
        isbn == recstruct.isbn
        Skip == [skip |-> TRUE, ids |-> {}, warned |-> FALSE]
    IN
    IF DoiExisting(doi, old_external_ids, blacklist, orcid) THEN Skip
    ELSE IF IsbnExisting(isbn, old_external_ids) THEN Skip
    ELSE LET start == [skip |-> FALSE, warned |-> FALSE,
                       ids |-> DoiIds(doi) \cup IsbnIds(isbn)]
             ax == ArxivLoop(recstruct.f037, 1, old_external_ids, start)
         IN
         IF ax.skip THEN [Skip EXCEPT !.warned = ax.warned]
         ELSE IF UrlExisting(url, old_external_ids)
              THEN [Skip EXCEPT !.warned = ax.warned]
         ELSE [ax EXCEPT !.ids = UrlFallback(ax.ids, url)]

(***************************************************************************)
(* _get_orcid_dictionaries: the generator of the batches.  One resumption  *)
(* of the generator runs from paper number pos to the next yield; the      *)
(* result is the yielded list (empty when the generator is exhausted), the *)
(* position where the next resumption starts, and raised = TRUE when the   *)
(* resumption ended with an exception instead of a yield.                  *)
(***************************************************************************)
WorkDict(recid, external_ids) ==
    [recid |-> recid, work_external_identifiers |-> external_ids]

\* work_source = record_get_field_value(recstruct, '359', '', '', '9')
\* if work_source: work_dict['work_source']['work-source'] = ...
\* work_dict has no key 'work_source': the assignment raises KeyError.
WorkSourceRaises(recstruct) == recstruct.f359 # None

\* A batch that is yielded one record too late.
BatchFullOffByOne(orcid_list, size) == Len(orcid_list) = size + 1

\* if len(orcid_list) == ORCID_SINGLE_REQUEST_WORKS: yield orcid_list
BatchFull(orcid_list, size) == Len(orcid_list) = size

RECURSIVE _get_orcid_dictionaries(_, _, _, _, _, _, _)
_get_orcid_dictionaries(papers, pos, orcid_list, old_ids, blacklist, orcid, size) ==
    IF pos > Len(papers)
    THEN [list |-> orcid_list, pos |-> pos, raised |-> FALSE]
    ELSE LET recid == papers[pos]
             ext == _get_external_ids(recid, RecordUrl(recid), get_record(recid),
                                      old_ids, blacklist, orcid)
         IN
         IF ext.skip
         THEN _get_orcid_dictionaries(papers, pos + 1, orcid_list, old_ids,
                                      blacklist, orcid, size)
         ELSE IF WorkSourceRaises(get_record(recid))
         THEN [list |-> <<>>, pos |-> pos, raised |-> TRUE]
         ELSE LET longer == Append(orcid_list, WorkDict(recid, ext.ids)) IN
              IF BatchFull(longer, size)
              THEN [list |-> longer, pos |-> pos + 1, raised |-> FALSE]
              ELSE _get_orcid_dictionaries(papers, pos + 1, longer, old_ids,
                                           blacklist, orcid, size)

(***************************************************************************)
(* _push_few_works: one transmission of a batch and the handling of the    *)
(* answer.  The answer of requests.post is                                 *)
(*   [code, wrong_id]  the status code and, when the body matches          *)
(*                     pattern of re.search (have the same external id,    *)
(*                     then a quoted value), the value the body names;     *)
(*                     None when the body does not match.                  *)
(* The result is what the function returns (ret is "True", "False" or      *)
(* "list", with the shorter list in list) and what it leaves in the        *)
(* blacklist file and in the table of tokens.                              *)
(***************************************************************************)
\* response.raise_for_status() raises HTTPError for the 4xx and 5xx codes.
RaisesHTTPError(code) == code >= 400 /\ code < 600

\* if code == 401:
TokenExpired(code) == code = 401

\* elif code != 201 and code != 200:
NotSucceeded(code) == code # 201 /\ code # 200

\* A delete_token that leaves the row in the table.
delete_token_leaves_row(pid, toks) == toks

\* delete_token(pid)
delete_token(pid, toks) == toks \ {pid}

\* shorter_list = [x for x in short_list if
\*     all(t[1] != wrong_id for t in x['work_external_identifiers'])]
ShorterList(short_list, wrong_id) ==
    LET Keep(x) == \A t \in x.work_external_identifiers : t[2] # wrong_id
    IN SelectSeq(short_list, Keep)

\* A BlacklistAdd that replaces the list of the author by the new value.
BlacklistAddOverwrites(blacklist, doid, wrong_id) ==
    [k \in DOMAIN blacklist \cup {doid} |->
        IF k = doid THEN <<wrong_id>> ELSE blacklist[k]]

\* if doid in blacklist: blacklist[doid].append(wrong_id)
\* else: blacklist[doid] = [wrong_id]
BlacklistAdd(blacklist, doid, wrong_id) ==
    IF doid \in DOMAIN blacklist
    THEN [blacklist EXCEPT ![doid] = Append(@, wrong_id)]
    ELSE [k \in DOMAIN blacklist \cup {doid} |->
            IF k = doid THEN <<wrong_id>> ELSE blacklist[k]]

\* if blacklist: ... json.dump(blacklist, open(FILE, 'w'))
SaveCollision(file, doid, wrong_id) ==
    LET blacklist == LoadBlacklist(file) IN
    IF DOMAIN blacklist # {}
    THEN DumpBlacklist(BlacklistAdd(blacklist, doid, wrong_id))
    ELSE file

_push_few_works(doid, short_list, pid, response, file, toks) ==
    LET Return(ret, list, f, t) ==
            [ret |-> ret, list |-> list, file |-> f, tokens |-> t]
    IN
    IF TokenExpired(response.code)
    THEN Return("True", <<>>, file, delete_token(pid, toks))
    ELSE IF NotSucceeded(response.code) /\ RaisesHTTPError(response.code)
    THEN IF response.wrong_id # None
         THEN LET shorter_list == ShorterList(short_list, response.wrong_id)
                  saved == SaveCollision(file, doid, response.wrong_id)
              IN IF Len(shorter_list) = 0
                 THEN Return("True", <<>>, saved, toks)
                 ELSE Return("list", shorter_list, saved, toks)
         ELSE Return("False", <<>>, file, toks)
    ELSE Return("True", <<>>, file, toks)

\* The answers of the registry to a transmission of short_list.  A body that
\* matches the pattern names the value of an identifier of the batch, or a
\* text that is the value of no identifier of any record (ForeignId).
ForeignId == "10.1/a&b"

BatchValues(short_list) ==
    UNION {{t[2] : t \in x.work_external_identifiers} : x \in SeqRange(short_list)}

WrongIds(short_list) == BatchValues(short_list) \cup {ForeignId}

Responses(short_list) ==
    {[code |-> c, wrong_id |-> None] : c \in {200, 201, 304, 401, 500}}
        \cup {[code |-> 409, wrong_id |-> w] : w \in WrongIds(short_list)}

(***************************************************************************)
(* The state.                                                              *)
(***************************************************************************)
VARIABLES
    \* the collaborators
    claimed,         \* the papers each author has claimed
    was_changed,     \* aidTOKEN.was_changed of each author (pid_token[2])
    tokens,          \* the authors that have a row (a token) in aidTOKEN
    blacklist_file,  \* CFG_ORCIDUTILS_BLACKLIST_FILE
    batch_size,      \* the configured ORCID_SINGLE_REQUEST_WORKS
    no_orcid,        \* the authors with no ORCID id in the database
    \* _orcid_push_with_bibtask
    pc,              \* where the task is
    pid_tokens,      \* pid_tokens = get_all_tokens()
    idx,             \* the position of the for loop in pid_tokens
    success,
    result,          \* the list held by result in the while loop
    \* _orcid_fetch_works and the suspended _get_orcid_dictionaries
    doid, existing_papers, papers_recs, pos,
    \* history, read by the properties only
    stalls,          \* collisions of this run that removed no record
    rounds,          \* transmissions made for the current batch
    singles,         \* those of them that removed exactly one record
    last,            \* the last transmission and its answer
    started,         \* authors whose flag this run has set to 1
    cleared,         \* authors whose flag this run has set back to 0
    revoked,         \* authors that got a 401 in this run
    failed,          \* authors with a batch of this run that failed
    dirty,           \* authors whose claims changed after they were last read
    fetched,         \* the answers of the registry to the fetch of the attempt
                     \* and the number of requests the fetch has made
    pull,            \* the last call of get_dois_from_orcid_api_v2_1: its
                     \* arguments, the answers of the registry and its result
    run_start,       \* the blacklist file as it was when the task started
    batch0,          \* the current batch as it was yielded, with the number of
                     \* blacklist entries of the author at that time
    \* gc_workaround
    version_info,    \* sys.version_info, its first two components
    gc_isenabled,    \* gc.isenabled()
    frames,          \* the calls of gcwrapper that are active, the innermost
                     \* last: the gcfixme of each, and (read by the properties
                     \* only) gc.isenabled() as it was when the call started
    outcome          \* the call of gcwrapper that ended last: how it ended,
                     \* and gc.isenabled() before and after it

gcvars == <<version_info, gc_isenabled, frames, outcome>>

vars == <<gcvars,
          claimed, was_changed, tokens, blacklist_file, batch_size, no_orcid, pc,
          pid_tokens, idx, success, result, doid, existing_papers,
          papers_recs, pos, stalls, rounds, singles, last, started, cleared,
          revoked, failed, dirty, run_start, batch0, fetched,
                   pull>>

env == <<claimed, was_changed, tokens, blacklist_file, batch_size, no_orcid,
         gcvars>>
attempt == <<doid, existing_papers, papers_recs, pos>>
history == <<stalls, rounds, singles, last, started, cleared, revoked, failed,
             dirty, run_start, batch0>>

\* The current author: pid = pid_token[0]
CurToken == pid_tokens[idx]
pid == CurToken.pid

NoTransmission ==
    [pid |-> 0, transport |-> FALSE, response |-> [code |-> 0, wrong_id |-> None],
     sent |-> 0, returned |-> "none", after401 |-> FALSE,
     afterfail |-> FALSE]

NoFetch == [script |-> <<>>, attempts |-> 0]

NoPull == [orcid_id |-> None, script |-> <<>>, dois |-> {}, attempts |-> 0]

\* The number of values the blacklist file holds for an ORCID id.
Entries(file, orcid) == Len(BlacklistGet(LoadBlacklist(file), orcid))

\* The blacklist files the task may find: no file, an empty mapping, a
\* mapping that holds a value for the second author only, and a mapping that
\* holds, for the first author, a value an earlier run has written.
InitialFiles ==
    { NoFile,
      DumpBlacklist(EmptyDict),
      DumpBlacklist([k \in {get_orcid_id_of_author(2)} |-> <<"10.1/y">>]),
      DumpBlacklist([k \in {get_orcid_id_of_author(1)} |-> <<"978-1">>]) }

TaskInit ==
    /\ claimed = [p \in Pids |-> {}]
    /\ was_changed = [p \in Pids |-> 0]
    /\ tokens = Pids
    /\ blacklist_file \in InitialFiles
    /\ batch_size \in ORCID_SINGLE_REQUEST_WORKS .. MaxBatchSize
    /\ no_orcid \in {{}, {1}}
    /\ pc = "idle"
    /\ pid_tokens = <<>>
    /\ idx = 1
    /\ success = TRUE
    /\ result = <<>>
    /\ doid = None
    /\ existing_papers = EmptyExtIds
    /\ papers_recs = <<>>
    /\ pos = 1
    /\ stalls = 0
    /\ rounds = 0
    /\ singles = 0
    /\ last = NoTransmission
    /\ started = {}
    /\ cleared = {}
    /\ revoked = {}
    /\ failed = {}
    /\ dirty = [p \in Pids |-> FALSE]
    /\ run_start = blacklist_file
    /\ batch0 = [len |-> 0, entries |-> 0]
    /\ fetched = NoFetch
    /\ pull = NoPull

\* No call of a decorated function has ended yet.
NoOutcome == [how |-> "none", before |-> FALSE, after |-> FALSE]

\* The task, in an interpreter where gcfix does nothing.
Init ==
    /\ TaskInit
    /\ version_info = <<2, 7>>
    /\ gc_isenabled = TRUE
    /\ frames = <<>>
    /\ outcome = NoOutcome

(***************************************************************************)
(* The collaborators.                                                      *)
(***************************************************************************)
\* The author claims one more paper: the paper joins the list of claimed
\* papers and the change flag of the author is raised.
ClaimChange(p, recid) ==
    /\ Cardinality(claimed[p]) < MaxPapers
    /\ recid \in Claimable(p) \ claimed[p]
    /\ claimed' = [claimed EXCEPT ![p] = @ \cup {recid}]
    /\ was_changed' = [was_changed EXCEPT ![p] = 1]
    /\ dirty' = [dirty EXCEPT ![p] = TRUE]
    /\ UNCHANGED gcvars
    /\ UNCHANGED <<tokens, blacklist_file, batch_size, no_orcid, pc, pid_tokens, idx,
                   success, result, attempt, stalls, rounds, singles, last,
                   started, cleared, revoked, failed, run_start, batch0,
                   fetched,
                   pull>>

\* get_papers_of_author(pid, include_unclaimed=False): the claimed papers,
\* in the order of their record ids.
RECURSIVE SortedSeq(_)
SortedSeq(S) ==
    IF S = {} THEN <<>>
    ELSE LET m == CHOOSE x \in S : \A y \in S : x <= y
         IN <<m>> \o SortedSeq(S \ {m})

get_papers_of_author(p, claims) == SortedSeq(claims[p])

\* get_all_tokens(): the rows of aidTOKEN, as (pid, was_changed)
PidOrder == <<1, 2>>

get_all_tokens(toks, flags) ==
    LET Has(p) == p \in toks
        rows == SelectSeq(PidOrder, Has)
    IN [i \in 1 .. Len(rows) |-> [pid |-> rows[i], was_changed |-> flags[rows[i]]]]

\* A trigger_aidtoken_change that writes 0 whatever the value.
trigger_aidtoken_change_zero(flags, p, value) == [flags EXCEPT ![p] = 0]

\* trigger_aidtoken_change(pid, value)
trigger_aidtoken_change(flags, p, value) == [flags EXCEPT ![p] = value]

\* A caller asks for the DOIs the registry holds for an author (the call has
\* no state of its own: one call is followed before the task starts).
GetDoisFromOrcid(orcid_id, script) ==
    /\ pc = "idle"
    /\ pull = NoPull
    /\ LET r == get_dois_from_orcid_api_v2_1(orcid_id, script)
       IN pull' = [orcid_id |-> orcid_id, script |-> script, dois |-> r.dois,
                   attempts |-> r.attempts]
    /\ UNCHANGED <<env, pc, pid_tokens, idx, success, result, attempt,
                   history, fetched>>

(***************************************************************************)
(* _orcid_push_with_bibtask                                                *)
(***************************************************************************)
\* A test of the flag that holds for every row.
FlaggedAlways(pid_token) == TRUE

\* if pid_token[2]:
Flagged(pid_token) == pid_token.was_changed # 0

\* The task starts: pid_tokens = get_all_tokens(); success = True
Start ==
    /\ pc = "idle"
    /\ pid_tokens' = get_all_tokens(tokens, was_changed)
    /\ success' = TRUE
    /\ idx' = 1
    /\ pc' = "loop"
    /\ stalls' = 0
    /\ started' = {}
    /\ cleared' = {}
    /\ revoked' = {}
    /\ failed' = {}
    /\ run_start' = blacklist_file
    /\ last' = NoTransmission
    /\ pull' = NoPull
    /\ UNCHANGED <<env, result, attempt, rounds, singles, dirty, batch0,
                   fetched>>

\* for pid_token in pid_tokens: if pid_token[2]: trigger_aidtoken_change(pid, 1)
\* and, after the last row, return success
NextAuthor ==
    /\ pc = "loop"
    /\ IF idx > Len(pid_tokens)
       THEN /\ pc' = "done"
            /\ UNCHANGED <<idx, was_changed, started>>
       ELSE IF Flagged(CurToken)
       THEN /\ was_changed' = trigger_aidtoken_change(was_changed, pid, 1)
            /\ started' = started \cup {pid}
            /\ pc' = "fetch"
            /\ UNCHANGED idx
       ELSE /\ idx' = idx + 1
            /\ UNCHANGED <<pc, was_changed, started>>
    /\ UNCHANGED gcvars
    /\ UNCHANGED <<claimed, tokens, blacklist_file, batch_size, no_orcid, pid_tokens,
                   success, result, attempt, stalls, rounds, singles, last,
                   cleared, revoked, failed, dirty, run_start, batch0,
                   fetched,
                   pull>>

\* _orcid_fetch_works, first part:
\* doid, existing_papers = _get_ext_orcids_using_pid(pid)
\* The fetch makes one request.  An exception of the request that is not a
\* RequestException is caught nowhere: the task ends with it.
FetchExtIds(script) ==
    /\ pc = "fetch"
    /\ LET orcid_id == _get_ext_orcids_using_pid(pid, no_orcid)
           answer == script[1]
       IN IF orcid_id = None
          THEN \* if orcid_id: is false, no request is made
               /\ doid' = orcid_id
               /\ existing_papers' = _get_extids_from_orcid(orcid_id, [ok |-> FALSE, ids |-> {}])
               /\ pc' = "papers"
               /\ fetched' = NoFetch
          ELSE IF answer.kind # "ok" /\ ~IsRequestException(answer.kind)
          THEN /\ pc' = "raised"
               /\ fetched' = [script |-> script, attempts |-> 1]
               /\ UNCHANGED <<doid, existing_papers>>
          ELSE /\ doid' = orcid_id
               /\ existing_papers' =
                     _get_extids_from_orcid(orcid_id, read_record_public(answer))
               /\ pc' = "papers"
               /\ fetched' = [script |-> script, attempts |-> 1]
    /\ UNCHANGED <<env, pid_tokens, idx, success, result, papers_recs, pos,
                   history, pull>>

\* _orcid_fetch_works, second part:
\* papers_recs = [x[3] for x in get_papers_of_author(pid, ...)]
ReadPapers ==
    /\ pc = "papers"
    /\ papers_recs' = get_papers_of_author(pid, claimed)
    /\ pos' = 1
    /\ dirty' = [dirty EXCEPT ![pid] = FALSE]
    /\ fetched' = NoFetch
    /\ pc' = "batch"
    /\ UNCHANGED <<env, pid_tokens, idx, success, result, doid,
                   existing_papers, stalls, rounds, singles, last, started,
                   cleared, revoked, failed, run_start, batch0, pull>>

\* The for loop asks the generator for the next batch: the generator runs
\* to its next yield, or ends, or raises (nothing catches the exception, the
\* task ends with it).  result = orcid_small_list
NextBatch ==
    /\ pc = "batch"
    /\ LET g == _get_orcid_dictionaries(papers_recs, pos, <<>>, existing_papers,
                                        LoadBlacklist(blacklist_file), doid,
                                        batch_size)
       IN IF g.raised
          THEN /\ pc' = "raised"
               /\ UNCHANGED <<result, pos, rounds, singles, batch0>>
          ELSE IF Len(g.list) > 0
          THEN /\ result' = g.list
               /\ pos' = g.pos
               /\ rounds' = 0
               /\ singles' = 0
               /\ batch0' = [len |-> Len(g.list),
                             entries |-> Entries(blacklist_file, doid)]
               /\ pc' = "push"
          ELSE /\ pc' = "clear"
               /\ UNCHANGED <<result, pos, rounds, singles, batch0>>
    /\ last' = NoTransmission
    /\ UNCHANGED <<env, pid_tokens, idx, success, doid, existing_papers,
                   papers_recs, stalls, started, cleared, revoked,
                   failed, dirty, run_start, fetched,
                   pull>>

\* while isinstance(result, list): result = _push_few_works(...)
\* if not result: success = False; break
PushFewWorks(response) ==
    /\ pc = "push"
    /\ doid # None
    /\ LET r == _push_few_works(doid, result, pid, response, blacklist_file,
                                tokens)
           stalled == r.ret = "list" /\ Len(r.list) = Len(result)
       IN /\ stalled => stalls < MaxStalls
          /\ stalls' = IF stalled THEN stalls + 1 ELSE stalls
          /\ blacklist_file' = r.file
          /\ tokens' = r.tokens
          /\ result' = r.list
          /\ success' = IF r.ret = "False" THEN FALSE ELSE success
          /\ pc' = CASE r.ret = "list" -> "push"
                     [] r.ret = "False" -> "clear"
                     [] r.ret = "True" -> "batch"
          /\ last' = [pid |-> pid, transport |-> FALSE, response |-> response,
                      sent |-> Len(result), returned |-> r.ret,
                      after401 |-> pid \in revoked,
                      afterfail |-> pid \in failed]
          /\ singles' = IF Len(r.list) = Len(result) - 1 /\ r.ret # "False"
                           /\ ~TokenExpired(response.code)
                           /\ NotSucceeded(response.code)
                           /\ RaisesHTTPError(response.code)
                        THEN singles + 1 ELSE singles
          /\ revoked' = IF TokenExpired(response.code)
                        THEN revoked \cup {pid} ELSE revoked
          /\ failed' = IF r.ret = "False" THEN failed \cup {pid} ELSE failed
    /\ rounds' = rounds + 1
    /\ UNCHANGED gcvars
    /\ UNCHANGED <<claimed, was_changed, batch_size, no_orcid, pid_tokens, idx, attempt,
                   started, cleared, dirty, run_start, batch0, fetched,
                   pull>>

\* requests.post raises (no connection, timeout): nothing catches the
\* exception, the task ends with it.
PushTransportError ==
    /\ pc = "push"
    /\ doid # None
    /\ pc' = "crashed"
    /\ rounds' = rounds + 1
    /\ last' = [pid |-> pid, transport |-> TRUE,
                response |-> [code |-> 0, wrong_id |-> None],
                sent |-> Len(result),
                returned |-> "raised", after401 |-> pid \in revoked,
                afterfail |-> pid \in failed]
    /\ failed' = failed \cup {pid}
    /\ UNCHANGED <<env, pid_tokens, idx, success, result, attempt, stalls,
                   singles, started, cleared, revoked, dirty, run_start,
                   batch0, fetched,
                   pull>>

\* _push_few_works, url = member_url + doid + '/orcid-works': with doid
\* None the concatenation raises TypeError before anything is sent; nothing
\* catches the exception, the task ends with it.
PushRaisesTypeError ==
    /\ pc = "push"
    /\ doid = None
    /\ pc' = "raised"
    /\ UNCHANGED <<env, pid_tokens, idx, success, result, attempt, fetched,
                   history, pull>>

\* trigger_aidtoken_change(pid, 0), and the for loop goes to the next row
ClearFlag ==
    /\ pc = "clear"
    /\ was_changed' = trigger_aidtoken_change(was_changed, pid, 0)
    /\ cleared' = cleared \cup {pid}
    /\ idx' = idx + 1
    /\ pc' = "loop"
    \* the generator and the locals of the attempt are gone
    /\ result' = <<>>
    /\ doid' = None
    /\ existing_papers' = EmptyExtIds
    /\ papers_recs' = <<>>
    /\ pos' = 1
    /\ rounds' = 0
    /\ singles' = 0
    /\ last' = NoTransmission
    /\ batch0' = [len |-> 0, entries |-> 0]
    /\ UNCHANGED gcvars
    /\ UNCHANGED <<claimed, tokens, blacklist_file, batch_size, no_orcid, pid_tokens,
                   success, stalls, started, revoked, failed, dirty,
                   run_start, fetched,
                   pull>>

Next ==
    \/ \E p \in Pids, recid \in Recids : ClaimChange(p, recid)
    \/ Start
    \/ NextAuthor
    \/ \E script \in Scripts : FetchExtIds(script)
    \/ \E orcid_id \in Doids \cup {None}, script \in Scripts :
          GetDoisFromOrcid(orcid_id, script)
    \/ ReadPapers
    \/ NextBatch
    \/ \E response \in Responses(result) : PushFewWorks(response)
    \/ PushTransportError
    \/ PushRaisesTypeError
    \/ ClearFlag

Spec == Init /\ [][Next]_vars

(***************************************************************************)
(* The verified properties.                                                *)
(***************************************************************************)
\* The configuration the source ships: ORCID_SINGLE_REQUEST_WORKS = 1.
Shipped == batch_size = ORCID_SINGLE_REQUEST_WORKS

\* The answer is handled as a collision: the status is not 401, 200 or 201,
\* raise_for_status raises, and the body names a value.
CollisionAnswer(response) ==
    /\ response.code \notin {200, 201, 401}
    /\ response.code >= 400
    /\ response.wrong_id # None

\* A step that transmits a batch and gets an answer.
Transmitted == pc = "push" /\ rounds' = rounds + 1 /\ ~last'.transport

\* The values the blacklist file holds for an ORCID id.
Blacklisted(file, orcid) == SeqRange(BlacklistGet(LoadBlacklist(file), orcid))

\* C1: every collision answer strictly decreases the number of records of
\* the batch, whatever value the registry names.
C1_CollisionShrinksBatch ==
    [][(Shipped /\ Transmitted /\ CollisionAnswer(last'.response))
          => Len(result') < Len(result)]_vars

\* C2: when a collision round has returned, the blacklist file holds the
\* value the registry named under the ORCID id of the author, whatever the
\* file was before (missing and empty included).
C2_CollisionIsPersisted ==
    (Shipped /\ pc \in {"push", "batch"} /\ ~last.transport
        /\ CollisionAnswer(last.response))
      => last.response.wrong_id \in Blacklisted(blacklist_file, doid)

\* C3: a change of the claims of an author that the attempt has not read
\* leaves the change flag of the author set: the flag is 0 only when the
\* claims were read after their last change.
C3_ChangeDuringSyncIsKept ==
    \A p \in Pids : (Shipped /\ dirty[p]) => was_changed[p] # 0

\* The candidate identifiers of a record: its DOIs, its ISBN and its arXiv
\* ids, by kind.
Candidates(recid) ==
    LET rec == get_record(recid) IN
    {<<"doi", rec.doi[i]>> : i \in 1 .. Len(rec.doi)}
      \cup (IF rec.isbn # None THEN {<<"isbn", rec.isbn>>} ELSE {})
      \cup {<<"arxiv", rec.f037[i].a>> :
              i \in {j \in 1 .. Len(rec.f037) : IsArxivSource(rec.f037[j].s9)}}

\* C4: a work is skipped whenever one of its candidate identifiers, of any
\* kind, is among the remote identifiers of that kind or in the blacklist of
\* the author: no such work is in a batch the builder yields.
C4_KnownOrBlacklistedIsSkipped ==
    (Shipped /\ pc = "push" /\ rounds = 0) =>
        \A w \in SeqRange(result) : \A c \in Candidates(w.recid) :
            /\ c[2] \notin existing_papers[c[1]]
            /\ c[2] \notin Blacklisted(blacklist_file, doid)

\* C5: a work whose identifier was recorded in the blacklist by a collision
\* of an earlier run is skipped when the task runs again: no batch that is
\* transmitted holds an identifier value that was in the blacklist of the
\* author when the run started, whatever the kind of the identifier.
C5_CollidedBatchIsNotResubmitted ==
    (Shipped /\ pc = "push") =>
        \A w \in SeqRange(result) : \A t \in w.work_external_identifiers :
            t[2] \notin Blacklisted(run_start, doid)

\* C6: when each of the N records of a batch was removed by a collision of
\* its own (N transmissions, each removing exactly one record), the push
\* loop ends with success and the blacklist of the author has grown by
\* exactly N entries.
C6_DistinctCollisionsGrowBlacklist ==
    (Shipped /\ pc = "batch" /\ rounds > 0 /\ rounds = batch0.len
        /\ singles = rounds)
      => /\ last.returned = "True"
         /\ Entries(blacklist_file, doid) = batch0.entries + batch0.len

\* C7: after a 401 for an author, no further batch of that author is
\* transmitted in the run.
C7_NoTransmissionAfter401 == Shipped => ~last.after401

\* C8: the token of an author is deleted if and only if a transmission for
\* that author was answered with 401: that answer removes exactly the row of
\* that author, and no other step changes the table of tokens.
C8_TokenDeletedOnlyOn401 ==
    [][IF Transmitted /\ last'.response.code = 401
       THEN last'.pid \notin tokens' /\ tokens' = tokens \ {last'.pid}
       ELSE tokens' = tokens]_vars

\* A 401 was answered to the first author, whose token is gone while the
\* token of the other author is still there.
C8_Witness ==
    /\ ~last.transport /\ last.response.code = 401 /\ last.sent > 0
    /\ last.pid = 1 /\ tokens = {2}

\* C9: when the task has ended, the change flag of every author whose
\* attempt was started has been set back to 0, also when a batch failed.
C9_StartedFlagIsCleared ==
    (Shipped /\ pc \in {"done", "crashed"}) => started \subseteq cleared

\* C10: when a batch of an author has failed, no further batch of that
\* author is transmitted, the job ends as a failure, and every later author
\* whose flag was set is still processed.
C10_FailureSkipsOnlyThatAuthor ==
    /\ Shipped => ~last.afterfail
    /\ (Shipped /\ failed # {} /\ pc \in {"done", "crashed"}) =>
          /\ (success = FALSE \/ pc = "crashed")
          /\ \A i \in 1 .. Len(pid_tokens) :
                pid_tokens[i].was_changed # 0 => pid_tokens[i].pid \in started

\* The answer ends the batch in Failed: it is not 200 or 201, not 401, and
\* it is not a collision.
FailedAnswer(response) ==
    /\ response.code \notin {200, 201, 401}
    /\ ~CollisionAnswer(response)

\* C11: the result of the job is true if and only if no batch of the run
\* ended in Failed: success stays as it was through every transmission whose
\* answer is 200, 201, 401 or a collision, and a transmission whose answer is
\* any other one turns it to false.
C11_JobResultIsNoFailure ==
    [][(Shipped /\ Transmitted)
          => success' = (success /\ ~FailedAnswer(last'.response))]_vars

\* The record ids of the works of papers number from .. to - 1 that the
\* extractor does not skip, in the order of the papers.
RECURSIVE KeptWorks(_, _, _)
KeptWorks(papers, from, to) ==
    IF from >= to THEN <<>>
    ELSE LET recid == papers[from]
             ext == _get_external_ids(recid, RecordUrl(recid), get_record(recid),
                                      existing_papers,
                                      LoadBlacklist(blacklist_file), doid)
         IN (IF ext.skip THEN <<>> ELSE <<recid>>)
                \o KeptWorks(papers, from + 1, to)

YieldedRecids(list) == [i \in 1 .. Len(list) |-> list[i].recid]

\* C12: every resumption of the batch builder yields the works it has read
\* that are not skipped, in their order, and never more than batch_size of
\* them; a batch shorter than batch_size is the last one; and the builder
\* ends without a yield only when no work that is left is kept.  The batches
\* together are then the works of the input without the skipped ones.
C12_BatchesAreTheFilteredWorks ==
    [][(Shipped /\ pc = "batch" /\ pc' # "batch") =>
          IF pc' = "push"
          THEN /\ Len(result') <= batch_size
               /\ YieldedRecids(result') = KeptWorks(papers_recs, pos, pos')
               /\ Len(result') < batch_size => pos' > Len(papers_recs)
          ELSE /\ pc' = "clear"
               /\ KeptWorks(papers_recs, pos, Len(papers_recs) + 1) = <<>>]_vars

\* C13: a work that is not skipped has at least one identifier, and a work
\* without DOI, ISBN and arXiv id has exactly one identifier: the URL of the
\* record, of the kind other-id.
C13_FallbackIsTheRecordUrl ==
    (pc = "push" /\ rounds = 0) =>
        \A w \in SeqRange(result) :
            /\ w.work_external_identifiers # {}
            /\ Candidates(w.recid) = {} =>
                  w.work_external_identifiers
                      = {<<"other-id", RecordUrl(w.recid)>>}

\* Record 4, which has no DOI, no ISBN and no arXiv id, is in a batch with
\* its URL as the only identifier.
C13_Witness ==
    /\ pc = "push" /\ rounds = 0
    /\ \E w \in SeqRange(result) :
          /\ w.recid = 4
          /\ Candidates(4) = {}
          /\ w.work_external_identifiers = {<<"other-id", "/record/4">>}

IsTimeout(answer) == answer.kind \in {"ReadTimeout", "ConnectTimeout"}

\* C14: the fetch of the remote identifiers of the author makes at most 3
\* requests, and when the first two requests time out and the third is
\* answered, the attempt goes on with the identifiers of the third answer.
C14_FetchRetriesTimeouts ==
    (Shipped /\ fetched.attempts > 0) =>
        /\ fetched.attempts <= 3
        /\ (/\ Len(fetched.script) >= 3
            /\ IsTimeout(fetched.script[1])
            /\ IsTimeout(fetched.script[2])
            /\ fetched.script[3].kind = "ok")
           => /\ fetched.attempts = 3
              /\ pc = "papers"
              /\ existing_papers =
                    _get_extids_from_orcid(doid,
                                           read_record_public(fetched.script[3]))

\* C15: when the last request of the fetch of the attempt ended with a
\* failure, whatever the failure, the attempt goes on with the empty set of
\* remote identifiers.
C15_FailedFetchGivesEmptySnapshot ==
    (/\ Shipped
     /\ fetched.attempts > 0
     /\ fetched.script[fetched.attempts].kind # "ok")
      => pc = "papers" /\ existing_papers = EmptyExtIds

\* Every request of a fetch but the last one ended with a timeout.
OnlyTimeoutsRetried(script, attempts) ==
    \A i \in 1 .. attempts - 1 : IsTimeout(AnswerAt(script, i))

\* C16: a request of a fetch that ends with a failure that is not a timeout
\* is the last request of the fetch; when it is the first one, the fetch
\* has made exactly one request.  This holds of the fetch of the attempt and
\* of get_dois_from_orcid_api_v2_1.
C16_OnlyTimeoutsAreRetried ==
    /\ fetched.attempts > 0 =>
          /\ OnlyTimeoutsRetried(fetched.script, fetched.attempts)
          /\ ~IsTimeout(fetched.script[1]) => fetched.attempts = 1
    /\ pull.attempts > 0 =>
          /\ OnlyTimeoutsRetried(pull.script, pull.attempts)
          /\ ~IsTimeout(pull.script[1]) => pull.attempts = 1

\* get_dois_from_orcid_api_v2_1 got an HTTP error for its first request and
\* returned no DOI after that one request.
C16_Witness ==
    /\ pull.orcid_id # None
    /\ pull.script[1].kind = "HTTPError"
    /\ pull.attempts = 1
    /\ pull.dois = {}

\* A step that transmits a batch, with an answer or with a transport error.
Transmits == pc = "push" /\ rounds' = rounds + 1

\* C17: a batch is transmitted again only after a collision answer, and then
\* with fewer records than before: never after 200 or 201, after a failure
\* or after a transport error, and never with the same records.
C17_RetransmitOnlySmallerAfterCollision ==
    [][(Shipped /\ Transmits /\ rounds > 0) =>
          /\ ~last.transport
          /\ CollisionAnswer(last.response)
          /\ Len(result) < last.sent]_vars

\* The sequence without its element number i.
RemoveAt(seq, i) == SubSeq(seq, 1, i - 1) \o SubSeq(seq, i + 1, Len(seq))

\* C18: a collision answer removes from the batch exactly one record, which
\* carries the value the registry named; the other records stay as they
\* were, in their order.
C18_CollisionRemovesExactlyOneRecord ==
    [][(Shipped /\ Transmitted /\ CollisionAnswer(last'.response)) =>
          \E i \in 1 .. Len(result) :
              /\ last'.response.wrong_id \in
                    {t[2] : t \in result[i].work_external_identifiers}
              /\ result' = RemoveAt(result, i)]_vars

C20_FlagSetBeforeFetchAndPush ==
    (pc \in {"fetch", "papers", "batch", "push"}) =>
        /\ pid \in started
        /\ was_changed[pid] = 1

\* A batch of the first author was transmitted and answered, with the flag
\* of the author at 1.
C20_Witness ==
    /\ pc = "batch" /\ last.pid = 1 /\ pid = 1 /\ last.sent > 0
    /\ ~last.transport
    /\ was_changed[1] = 1 /\ 1 \in started

\* The author has a row in pid_tokens and the flag of the row is not set.
Unflagged(p) ==
    \E i \in 1 .. Len(pid_tokens) :
        pid_tokens[i].pid = p /\ pid_tokens[i].was_changed = 0

\* C21: for an author whose flag was not set when the task read the rows,
\* the task makes no fetch and no transmission, and no step of the task
\* changes the flag, the token or the blacklist entries of the author (the
\* flag changes only when the author claims a paper).
C21_UnflaggedAuthorIsLeftAlone ==
    [][\A p \in Pids : (pc # "idle" /\ Unflagged(p)) =>
          /\ pc' \in {"fetch", "papers", "batch", "push", "clear"}
                => pid_tokens[idx'].pid # p
          /\ p \notin started'
          /\ last'.pid # p
          /\ (p \in tokens') = (p \in tokens)
          /\ was_changed'[p] # was_changed[p] => claimed'[p] # claimed[p]
          /\ Blacklisted(blacklist_file', get_orcid_id_of_author(p))
                = Blacklisted(blacklist_file, get_orcid_id_of_author(p))]_vars

\* The task has ended after it transmitted a batch of the first author and
\* changed the blacklist, with the second author not flagged.
C21_Witness ==
    /\ pc = "done" /\ started = {1} /\ Unflagged(2) /\ 2 \in tokens
    /\ blacklist_file # run_start

\* C22: every batch that is transmitted has at least one record and at most
\* batch_size records, for the first transmission of a batch and for every
\* transmission after a collision.
C22_TransmittedBatchIsNonEmpty ==
    /\ pc = "push" => Len(result) >= 1 /\ Len(result) <= batch_size
    /\ last.pid # 0 => last.sent >= 1 /\ last.sent <= batch_size

\* A collision has emptied the batch: the push loop has ended with success
\* and nothing is transmitted again.
C22_Witness ==
    /\ pc = "batch" /\ result = <<>> /\ rounds > 0
    /\ ~last.transport /\ CollisionAnswer(last.response)
    /\ last.returned = "True"

\* The arXiv ids of the 037 fields of a record, one for each field.
ArxivFields(recid) ==
    LET f037 == get_record(recid).f037 IN
    SelectSeq(f037, LAMBDA f : IsArxivSource(f.s9))

\* The record has two 037 fields with the same arXiv id.
DoubledArxiv(recid) ==
    LET ax == ArxivFields(recid) IN
    \E i, j \in 1 .. Len(ax) : i < j /\ ax[i].a = ax[j].a

\* The extraction of a paper of the attempt, as the builder makes it now.
Extraction(recid) ==
    _get_external_ids(recid, RecordUrl(recid), get_record(recid),
                      existing_papers, LoadBlacklist(blacklist_file), doid)

\* C23: the extraction of a record that has the same arXiv id in two 037
\* fields skips the record only when one of its identifiers is known
\* remotely or is in the blacklist of the author, or its url is known
\* remotely; otherwise it reports the warning and gives the arXiv id once,
\* and the batch the builder yields holds the record with these identifiers.
C23_DoubledArxivIsWarnedAndKept ==
    (pc \in {"batch", "push"} /\ rounds = 0) =>
        \A recid \in {r \in SeqRange(papers_recs) : DoubledArxiv(r)} :
            LET ext == Extraction(recid)
                arxiv == {t \in ext.ids : t[1] = "arxiv"}
            IN /\ ext.skip =>
                     \/ \E c \in Candidates(recid) :
                           \/ c[2] \in existing_papers[c[1]]
                           \/ c[2] \in Blacklisted(blacklist_file, doid)
                     \/ RecordUrl(recid) \in existing_papers["other-id"]
               /\ ~ext.skip => ext.warned /\ Cardinality(arxiv) = 1
               /\ \A w \in SeqRange(result) :
                     (pc = "push" /\ w.recid = recid)
                        => ~ext.skip /\ w.work_external_identifiers = ext.ids

\* Record 1, whose two 037 fields hold the same arXiv id, is in a batch with
\* its DOI and that arXiv id, and the warning was reported.
C23_Witness ==
    /\ pc = "push" /\ rounds = 0 /\ DoubledArxiv(1)
    /\ Extraction(1).warned
    /\ \E w \in SeqRange(result) :
          /\ w.recid = 1
          /\ w.work_external_identifiers
                = {<<"doi", "10.1/x">>, <<"arxiv", "arXiv:1">>}

\* C26: no work whose url is among the remote identifiers of the kind
\* other-id is in a batch the builder yields, whatever other identifiers
\* the work has.
C26_KnownUrlIsSkipped ==
    (pc = "push" /\ rounds = 0) =>
        \A w \in SeqRange(result) :
            RecordUrl(w.recid) \notin existing_papers["other-id"]

\* Record 5, which has a DOI and an ISBN that are neither known remotely
\* nor in the blacklist, was the only paper of the author and its url is
\* known remotely: the builder has ended and nothing was transmitted.
C26_Witness ==
    /\ pc = "clear" /\ rounds = 0 /\ papers_recs = <<5>>
    /\ RecordUrl(5) \in existing_papers["other-id"]
    /\ Candidates(5) = {<<"doi", "10.1/a&b">>, <<"isbn", "978-1">>}
    /\ \A c \in Candidates(5) :
          /\ c[2] \notin existing_papers[c[1]]
          /\ c[2] \notin Blacklisted(blacklist_file, doid)

\* The values the run has added to the blacklist of the author so far.
BlacklistedInRun(orcid) ==
    Blacklisted(blacklist_file, orcid) \ Blacklisted(run_start, orcid)

\* C24: the builder reads the blacklist again for each batch, so a work
\* that carries an identifier the run has added to the blacklist of the
\* author while it pushed an earlier batch is in no later batch.
C24_BlacklistedInRunIsSkippedLater ==
    (Shipped /\ pc = "push" /\ rounds = 0) =>
        \A w \in SeqRange(result) : \A c \in Candidates(w.recid) :
            c[2] \notin BlacklistedInRun(doid)

\* The attempt of the run is for an author with no ORCID id in the database.
AttemptWithoutOrcid ==
    /\ pc \in {"fetch", "papers", "batch", "push", "clear", "raised", "crashed"}
    /\ pid \in no_orcid

\* C25: for an author whose flag is set and who has no ORCID id in the
\* database nothing is transmitted and the task does not end with an
\* exception; when the task is done the flag of the author was cleared and
\* the authors after this one had their attempt.
C25_NoRegistryIdDoesNoHarm ==
    /\ AttemptWithoutOrcid => pc \notin {"raised", "crashed"} /\ last.pid # pid
    /\ pc = "done" =>
          \A i \in 1 .. Len(pid_tokens) :
              (pid_tokens[i].pid \in no_orcid /\ Flagged(pid_tokens[i]))
                 => /\ pid_tokens[i].pid \in cleared
                    /\ \A j \in i + 1 .. Len(pid_tokens) :
                          Flagged(pid_tokens[j])
                             => pid_tokens[j].pid \in started

(***************************************************************************)
(* gc_workaround.gcfix                                                     *)
(***************************************************************************)
\* The interpreters: sys.version_info[0] and sys.version_info[1].
Versions == {<<2, 4>>, <<2, 5>>, <<2, 6>>, <<2, 7>>,
             <<3, 3>>, <<3, 6>>, <<3, 7>>, <<3, 8>>}

\* gcfixme = version_info[0] < 3 and version_info[1] < 7 and gc.isenabled()
gcfixme(version, isenabled) == version[1] < 3 /\ version[2] < 7 /\ isenabled

\* Nothing of the task moves while the decorated functions are called.
GcInit ==
    /\ TaskInit
    /\ blacklist_file = NoFile
    /\ batch_size = ORCID_SINGLE_REQUEST_WORKS
    /\ no_orcid = {}
    /\ version_info \in Versions
    /\ gc_isenabled \in BOOLEAN
    /\ frames = <<>>
    /\ outcome = NoOutcome

\* gcwrapper is called: gcfixme is computed, and if it holds, gc.disable();
\* then f(*args, **kwargs) starts.
GcCall ==
    /\ Len(frames) < MaxDepth
    /\ LET fixme == gcfixme(version_info, gc_isenabled) IN
       /\ frames' = Append(frames, [gcfixme |-> fixme, before |-> gc_isenabled])
       /\ gc_isenabled' = IF fixme THEN FALSE ELSE gc_isenabled
    /\ UNCHANGED <<version_info, outcome>>
    /\ UNCHANGED <<claimed, was_changed, tokens, blacklist_file, batch_size,
                   no_orcid, pc, pid_tokens, idx, success, result, attempt,
                   history, fetched, pull>>

\* f returns: retval = f(*args, **kwargs); if gcfixme: gc.enable();
\* return retval
GcReturn ==
    /\ frames # <<>>
    /\ LET top == frames[Len(frames)]
           after == IF top.gcfixme THEN TRUE ELSE gc_isenabled
       IN /\ gc_isenabled' = after
          /\ outcome' = [how |-> "returned", before |-> top.before,
                         after |-> after]
    /\ frames' = SubSeq(frames, 1, Len(frames) - 1)
    /\ UNCHANGED version_info
    /\ UNCHANGED <<claimed, was_changed, tokens, blacklist_file, batch_size,
                   no_orcid, pc, pid_tokens, idx, success, result, attempt,
                   history, fetched, pull>>

\* f raises: the exception leaves gcwrapper at retval = f(*args, **kwargs),
\* the statements after it are not executed.
GcRaise ==
    /\ frames # <<>>
    /\ LET top == frames[Len(frames)] IN
       outcome' = [how |-> "raised", before |-> top.before,
                   after |-> gc_isenabled]
    /\ frames' = SubSeq(frames, 1, Len(frames) - 1)
    /\ UNCHANGED <<version_info, gc_isenabled>>
    /\ UNCHANGED <<claimed, was_changed, tokens, blacklist_file, batch_size,
                   no_orcid, pc, pid_tokens, idx, success, result, attempt,
                   history, fetched, pull>>

GcNext ==
    \/ GcCall
    \/ GcReturn
    \/ GcRaise

GcSpec == GcInit /\ [][GcNext]_vars

\* C27: when a call of a decorated function has ended, by a return or by an
\* exception, gc.isenabled() is what it was when the call started.
C27_GcStateIsRestored ==
    outcome.how # "none" => outcome.after = outcome.before

====
